---- MODULE Spec2Model ----
(***************************************************************************)
(* Model of the vault-cli Obsidian plugin (main.ts): the task repository   *)
(* (parseTasks, isFileExcluded, detectPriority, toggleTask), the debounced *)
(* status poller (updateStatusDebounced, updateStatus) and the commands    *)
(* that run ./cli.sh.                                                      *)
(*                                                                         *)
(* Text is modelled as sequences of one-character strings, so that         *)
(* split/join/replace are computed the way the code computes them.         *)
(***************************************************************************)
EXTENDS Integers, Sequences, FiniteSets, TLC

VARIABLES
    \* ---- vault files and toggleTask (main.ts 288-315, 537-547) ----
    files,        \* the vault: normalized path -> file content (existing files)
    tasks,        \* the Task objects held by the open TasksModal
    calls,        \* toggleTask invocations: call slot -> its position and locals
    pair,         \* history: consecutive sequential toggles of one task
    edits,        \* number of external changes of the file so far
    toggles,      \* number of toggleTask calls started so far
    written,      \* history: the contents written in full by the editor or another
                  \* program (the first content included), and the content of the last write
    \* ---- plugin life cycle, status bar and debounce timer (main.ts 37-59, 148-153) ----
    loaded,        \* "new" (constructed), "loaded" (after onload), "unloaded"
    statusBarEl,   \* TRUE when the status bar element exists (not null)
    autoSync,      \* settings.autoSyncOnClose as read by setupEventListeners
    barText,       \* the text last set on the status bar element
    statusTimeout, \* the field statusTimeout: a timer handle, 0 for null
    timers,        \* the host's pending timeouts: records [id, left]
    procs,         \* ./cli.sh and grep subprocesses in flight: records [id, op]
    started,       \* number of updateStatus invocations that ran ./cli.sh status
    \* ---- history ----
    sinceCall,     \* ms since the last updateStatusDebounced call, -1 before the first
    timerStarts,   \* updateStatus calls made by the timer since that call
    burstCalls,    \* calls of the current burst (each less than a window after the previous)
    lastReport,    \* what the status invocation started last has reported, if anything
    lastOutcome,   \* how the command that finished last ended
    \* ---- settings and task listing (main.ts 200-263, 638-647) ----
    excludeSetting, \* settings.tasksExcludeFiles
    pending,        \* the parseTasks call waiting for its grep: [active, filter, patterns]
    scan,           \* history: the inputs of the parseTasks call that returned last
    listed,         \* the Task array that call returned
    \* ---- the helpers called on their own (main.ts 223, 265-286, 383-455) ----
    probe           \* the helper called last, its arguments and what it returned

toggleVars == <<files, tasks, calls, pair, edits, toggles, written>>

statusVars == <<loaded, statusBarEl, autoSync, barText, statusTimeout, timers, procs,
                started, sinceCall, timerStarts, burstCalls, lastReport, lastOutcome>>

\* what the toggle actions leave alone, and what the status actions leave alone
listVars == <<excludeSetting, pending, scan, listed>>

helperVars == <<probe>>

nonToggleVars == <<statusVars, listVars, helperVars>>
nonStatusVars == <<toggleVars, listVars, helperVars>>
nonListVars   == <<toggleVars, statusVars, helperVars>>
nonHelperVars == <<toggleVars, statusVars, listVars>>

vars == <<files, tasks, calls, pair, edits, toggles, written,
          loaded, statusBarEl, autoSync, barText, statusTimeout, timers, procs,
          started, sinceCall, timerStarts, burstCalls, lastReport, lastOutcome,
          excludeSetting, pending, scan, listed, probe>>

(***************************************************************************)
(* Bounds                                                                  *)
(***************************************************************************)
MaxTasks == 2
MaxCalls == 2
MaxEdits == 1
MaxToggles == 2
MaxStatusRuns == 2     \* status invocations started in one behaviour
MaxChanges == 1        \* largest change count ./cli.sh status reports
Tick == 500            \* ms by which time advances in one step
BurstCap == 3          \* burstCalls saturates here
MaxTags == 2           \* tags of one task handed to detectPriority
MaxPatterns == 2       \* exclusion patterns handed to isFileExcluded
MaxStatusLines == 2    \* lines of the output of ./cli.sh status

(***************************************************************************)
(* Program constants                                                       *)
(***************************************************************************)
DEBOUNCE_DELAY == 1000

(***************************************************************************)
(* String helpers (JavaScript String methods on character sequences)       *)
(***************************************************************************)
Min(a, b) == IF a <= b THEN a ELSE b

\* s.startsWith(pat, i-1): pat occurs in s at 1-based position i
OccursAt(s, pat, i) ==
    /\ i >= 1
    /\ i + Len(pat) - 1 <= Len(s)
    /\ \A k \in 1..Len(pat) : s[i + k - 1] = pat[k]

\* s.indexOf(pat) + 1: the first position where pat occurs, 0 when none
IndexOf(s, pat) ==
    LET hits == {i \in 1..(Len(s) + 1) : OccursAt(s, pat, i)}
    IN IF hits = {} THEN 0 ELSE CHOOSE i \in hits : \A j \in hits : i <= j

\* s.replace(pat, rep) with a string pattern: only the first occurrence
StrReplace(s, pat, rep) ==
    LET i == IndexOf(s, pat)
    IN IF i = 0 THEN s
       ELSE SubSeq(s, 1, i - 1) \o rep \o SubSeq(s, i + Len(pat), Len(s))

\* s.split(sep) for a one-character separator: always at least one element
RECURSIVE StrSplit(_, _)
StrSplit(s, sep) ==
    LET i == IndexOf(s, <<sep>>)
    IN IF i = 0 THEN <<s>>
       ELSE <<SubSeq(s, 1, i - 1)>> \o StrSplit(SubSeq(s, i + 1, Len(s)), sep)

\* parts.join(sep)
RECURSIVE StrJoin(_, _)
StrJoin(parts, sep) ==
    IF Len(parts) = 0 THEN <<>>
    ELSE IF Len(parts) = 1 THEN parts[1]
    ELSE parts[1] \o <<sep>> \o StrJoin(Tail(parts), sep)

NL == "\n"

(***************************************************************************)
(* Checkbox markers and sample text                                        *)
(***************************************************************************)
MarkerOpen == <<"-", " ", "[", " ", "]">>      \* '- [ ]'
MarkerDone == <<"-", " ", "[", "x", "]">>      \* '- [x]'
DotSlash   == <<".", "/">>                      \* './'

\* Lines used to build file contents
LineOpen   == MarkerOpen \o <<" ", "a">>                 \* "- [ ] a"
LineDone   == MarkerDone \o <<" ", "a">>                 \* "- [x] a"
LineIndent == <<" ">> \o MarkerOpen \o <<" ", "b">>      \* " - [ ] b"
LineTwo    == MarkerDone \o <<" ">> \o MarkerOpen        \* "- [x] - [ ]"
LineText   == <<"b">>                                    \* "b"

\* The contents the file a.md may be given by the editor or an external writer
Contents ==
    { StrJoin(<<LineOpen, LineDone>>, NL),
      StrJoin(<<LineText, LineOpen>>, NL),
      StrJoin(<<LineIndent, LineTwo>>, NL),
      StrJoin(<<LineDone, LineText, LineOpen>>, NL),
      LineOpen,
      LineDone \o <<NL>> }

PathA    == <<"a", ".", "m", "d">>                       \* "a.md"
GrepPath == DotSlash \o PathA                            \* "./a.md" as grep prints it

(***************************************************************************)
(* Task lines as the scan sees them                                        *)
(***************************************************************************)
IsSpace(ch) == ch \in {" ", "\t", "\r"}

\* number of leading whitespace characters of a line (the regex prefix \s*)
RECURSIVE LeadingSpaces(_)
LeadingSpaces(line) ==
    IF Len(line) > 0 /\ IsSpace(line[1]) THEN 1 + LeadingSpaces(Tail(line)) ELSE 0

\* grep "^\s*- \[[ x]\]": optional whitespace, then one of the two markers
GrepMatches(line) ==
    LET i == LeadingSpaces(line) + 1
    IN OccursAt(line, MarkerOpen, i) \/ OccursAt(line, MarkerDone, i)

\* the checkbox character the scan captures: "x", " " or "none"
MarkerOf(line) ==
    LET i == LeadingSpaces(line) + 1
    IN IF OccursAt(line, MarkerDone, i) THEN "x"
       ELSE IF OccursAt(line, MarkerOpen, i) THEN " "
       ELSE "none"

\* /\s*- \[([ x])\]\s*(.+)$/ on the line text: the marker must be followed by
\* at least one character for (.+)
ScanMatches(line) ==
    /\ GrepMatches(line)
    /\ Len(line) >= LeadingSpaces(line) + Len(MarkerOpen) + 1

\* line numbers (1-based, as grep -n prints them) of the task lines of a content
ScanLines(content) ==
    LET lines == StrSplit(content, NL)
    IN {i \in 1..Len(lines) : ScanMatches(lines[i])}

\* the Task record parseTasks pushes for line i of the file (fields the toggle uses)
TaskOfLine(content, i) ==
    [file |-> GrepPath, line |-> i,
     completed |-> (MarkerOf(StrSplit(content, NL)[i]) = "x")]

RECURSIVE SeqOfSet(_)
SeqOfSet(S) ==
    IF S = {} THEN <<>>
    ELSE LET m == CHOOSE x \in S : \A y \in S : x <= y
         IN <<m>> \o SeqOfSet(S \ {m})

(***************************************************************************)
(* toggleTask (main.ts 288-315) and the checkbox handler (541-547)         *)
(***************************************************************************)
IdleCall ==
    [pc |-> "idle", task |-> 0, path |-> <<>>, startCompleted |-> FALSE,
     existedAtStart |-> FALSE, hasRead |-> FALSE, readContent |-> <<>>,
     newContent |-> <<>>, wrote |-> FALSE, refreshed |-> FALSE,
     notice |-> "", ret |-> FALSE]

PairNone == [n |-> 0, task |-> 0, before |-> <<>>, arg |-> FALSE]

\* s.replace(/pat/g, rep): every occurrence, left to right
RECURSIVE StrReplaceAll(_, _, _)
StrReplaceAll(s, pat, rep) ==
    LET i == IndexOf(s, pat)
    IN IF i = 0 THEN s
       ELSE SubSeq(s, 1, i - 1) \o rep \o StrReplaceAll(SubSeq(s, i + Len(pat), Len(s)), pat, rep)

ToggledLineAll(line, completed) ==
    LET searchPattern  == IF completed THEN MarkerDone ELSE MarkerOpen
        replacePattern == IF completed THEN MarkerOpen ELSE MarkerDone
    IN StrReplaceAll(line, searchPattern, replacePattern)

\* lines 303-305: the marker substitution on the target line
ToggledLine(line, completed) ==
    LET searchPattern  == IF completed THEN MarkerDone ELSE MarkerOpen
        replacePattern == IF completed THEN MarkerOpen ELSE MarkerDone
    IN StrReplace(line, searchPattern, replacePattern)

\* as ToggledContent, but a trailing empty line is lost on the way back
ToggledContentTrimmed(content, lineNo, completed) ==
    LET lines     == StrSplit(content, NL)
        lineIndex == lineNo - 1
        toggled   == [lines EXCEPT ![lineIndex + 1] = ToggledLine(lines[lineIndex + 1], completed)]
    IN StrJoin(IF toggled[Len(toggled)] = <<>> THEN SubSeq(toggled, 1, Len(toggled) - 1)
               ELSE toggled, NL)

\* lines 299-307: the content handed to vault.modify
ToggledContent(content, lineNo, completed) ==
    LET lines     == StrSplit(content, NL)
        lineIndex == lineNo - 1
    IN StrJoin([lines EXCEPT ![lineIndex + 1] = ToggledLine(lines[lineIndex + 1], completed)], NL)

\* line 302: the bounds check on the freshly read content
LineInBounds(content, lineNo) ==
    LET lines     == StrSplit(content, NL)
        lineIndex == lineNo - 1
    IN lineIndex >= 0 /\ lineIndex < Len(lines)

\* lines 292-295: the path is no file of the vault
FileNotFoundRefreshing(base, task) ==
    [base EXCEPT !.pc = "returned", !.notice = "File not found",
                 !.ret = task.completed, !.refreshed = TRUE]

FileNotFound(base, task) ==
    [base EXCEPT !.pc = "returned", !.notice = "File not found",
                 !.ret = task.completed]

\* line 314: the value returned when the line index is out of bounds
OutOfBoundsResultNegated(task) == ~task.completed

OutOfBoundsResult(task) == task.completed

ContentOf(fs, path) == IF path \in DOMAIN fs THEN fs[path] ELSE <<>>

InFlight(c) == calls[c].pc \in {"reading", "writing", "returned"}

\* showTasksModal: the modal keeps Task objects for (some of) the scanned lines
ShowTasksModal ==
    /\ PathA \in DOMAIN files
    /\ \A c \in 1..MaxCalls : calls[c].pc = "idle"
    /\ \E S \in SUBSET ScanLines(files[PathA]) :
         /\ S # {}
         /\ Cardinality(S) <= MaxTasks
         /\ tasks' = [k \in 1..Cardinality(S) |->
                        TaskOfLine(files[PathA], SeqOfSet(S)[k])]
    /\ pair' = PairNone
    /\ UNCHANGED <<files, calls, edits, toggles, written>>
    /\ UNCHANGED nonToggleVars

\* lines 288-295: the call starts; a missing file ends it at once
ToggleStart(c, t) ==
    /\ calls[c].pc = "idle"
    /\ \A d \in 1..(c - 1) : calls[d].pc # "idle"
    /\ toggles < MaxToggles
    /\ toggles' = toggles + 1
    /\ t \in 1..Len(tasks)
    /\ LET task     == tasks[t]
           filePath == StrReplace(task.file, DotSlash, <<>>)
           base     == [IdleCall EXCEPT !.task = t, !.path = filePath,
                                        !.startCompleted = task.completed,
                                        !.existedAtStart = (filePath \in DOMAIN files)]
       IN /\ IF filePath \notin DOMAIN files
             THEN calls' = [calls EXCEPT ![c] = FileNotFound(base, task)]
             ELSE calls' = [calls EXCEPT ![c] = [base EXCEPT !.pc = "reading"]]
          /\ pair' = IF \E d \in 1..MaxCalls : d # c /\ InFlight(d) THEN PairNone
                     ELSE IF pair.n = 1 /\ pair.task = t THEN pair
                     ELSE [n |-> 0, task |-> t, before |-> ContentOf(files, filePath),
                           arg |-> task.completed]
    /\ UNCHANGED <<files, tasks, edits, written>>
    /\ UNCHANGED nonToggleVars

\* lines 298-307: vault.read resolves; the new content is computed and
\* vault.modify is issued, or the line is out of bounds, or the read throws
ToggleRead(c) ==
    /\ calls[c].pc = "reading"
    /\ LET call == calls[c]
           task == tasks[call.task]
       IN IF call.path \notin DOMAIN files
          THEN calls' = [calls EXCEPT ![c] =
                   [call EXCEPT !.pc = "returned", !.notice = "Failed to toggle task",
                                !.ret = task.completed]]
          ELSE LET content == files[call.path]
               IN IF LineInBounds(content, task.line)
                  THEN calls' = [calls EXCEPT ![c] =
                           [call EXCEPT !.pc = "writing", !.hasRead = TRUE,
                                        !.readContent = content,
                                        !.newContent =
                                            ToggledContent(content, task.line, task.completed)]]
                  ELSE calls' = [calls EXCEPT ![c] =
                           [call EXCEPT !.pc = "returned", !.hasRead = TRUE,
                                        !.readContent = content,
                                        !.ret = OutOfBoundsResult(task)]]
    /\ UNCHANGED <<files, tasks, pair, edits, toggles, written>>
    /\ UNCHANGED nonToggleVars

\* lines 307-309: vault.modify resolves (or throws), updateStatus is called and
\* the negated flag is returned
ToggleWrite(c) ==
    /\ calls[c].pc = "writing"
    /\ LET call == calls[c]
           task == tasks[call.task]
       IN IF call.path \notin DOMAIN files
          THEN /\ calls' = [calls EXCEPT ![c] =
                      [call EXCEPT !.pc = "returned", !.notice = "Failed to toggle task",
                                   !.ret = task.completed]]
               /\ files' = files
               /\ written' = written
          ELSE /\ files' = [files EXCEPT ![call.path] = call.newContent]
               /\ written' = [written EXCEPT !.last = call.newContent]
               /\ calls' = [calls EXCEPT ![c] =
                      [call EXCEPT !.pc = "returned", !.wrote = TRUE, !.refreshed = TRUE,
                                   !.ret = ~task.completed]]
    /\ UNCHANGED <<tasks, pair, edits, toggles>>
    /\ UNCHANGED nonToggleVars

\* lines 544-545: the handler stores the returned state in the Task
ToggleReturn(c) ==
    /\ calls[c].pc = "returned"
    /\ tasks' = [tasks EXCEPT ![calls[c].task].completed = calls[c].ret]
    /\ calls' = [calls EXCEPT ![c] = IdleCall]
    /\ pair' = IF pair.task # 0 /\ pair.task = calls[c].task /\ pair.n < 2
               THEN [pair EXCEPT !.n = pair.n + 1]
               ELSE PairNone
    /\ UNCHANGED <<files, edits, toggles, written>>
    /\ UNCHANGED nonToggleVars

\* the editor or another program rewrites, creates or deletes a.md
ExternalWrite(content) ==
    /\ edits < MaxEdits
    /\ edits' = edits + 1
    /\ files' = [p \in DOMAIN files \cup {PathA} |-> IF p = PathA THEN content ELSE files[p]]
    /\ written' = [full |-> written.full \cup {content}, last |-> content]
    /\ pair' = PairNone
    /\ UNCHANGED <<tasks, calls, toggles>>
    /\ UNCHANGED nonToggleVars

ExternalDelete ==
    /\ edits < MaxEdits
    /\ edits' = edits + 1
    /\ PathA \in DOMAIN files
    /\ files' = [p \in DOMAIN files \ {PathA} |-> files[p]]
    /\ pair' = PairNone
    /\ UNCHANGED <<tasks, calls, toggles, written>>
    /\ UNCHANGED nonToggleVars

NoPending == [active |-> FALSE, filter |-> <<>>, patterns |-> <<>>]
NoScan    == [done |-> FALSE, exit |-> "ok", stdout |-> <<>>, filter |-> <<>>,
              patterns |-> <<>>]

\* DEFAULT_SETTINGS.tasksExcludeFiles (line 25)
DefaultExclude == <<"C", "L", "A", "U", "D", "E", ".", "m", "d">>

\* the listing variables while another part of the plugin is examined
ListIdle ==
    /\ excludeSetting = DefaultExclude
    /\ pending = NoPending
    /\ scan = NoScan
    /\ listed = <<>>

\* no helper has been called yet
NoProbe == [fn |-> "none"]
HelpersIdle == probe = NoProbe

NoReport  == [exit |-> "none", n |-> 0]
NoOutcome == [op |-> "none", exit |-> "ok", reported |-> FALSE, result |-> "none",
              unhandled |-> FALSE]
NoText    == [text |-> "", n |-> 0]

\* what a subprocess may end with: exit code 0 with some output, a non-zero
\* exit code, or the CLI_TIMEOUT kill
ExitKinds == {"ok", "exit", "timeout"}
ProcResults == {[exit |-> "ok", n |-> k] : k \in 0..MaxChanges}
                   \cup {[exit |-> e, n |-> 0] : e \in ExitKinds \ {"ok"}}

\* the state of the status variables while another part of the plugin is examined
StatusIdle ==
    /\ loaded = "new"
    /\ statusBarEl = FALSE
    /\ autoSync = FALSE
    /\ barText = NoText
    /\ statusTimeout = 0
    /\ timers = {}
    /\ procs = {}
    /\ started = 0
    /\ sinceCall = -1
    /\ timerStarts = 0
    /\ burstCalls = 0
    /\ lastReport = NoReport
    /\ lastOutcome = NoOutcome

\* the toggle variables while another part of the plugin is examined
ToggleIdle ==
    /\ files = [p \in {PathA} |-> LineOpen]
    /\ tasks = <<>>
    /\ calls = [c \in 1..MaxCalls |-> IdleCall]
    /\ pair = PairNone
    /\ edits = 0
    /\ toggles = 0
    /\ written = [full |-> {LineOpen}, last |-> LineOpen]

InitToggle ==
    /\ files \in {[p \in {PathA} |-> c] : c \in Contents}
    /\ tasks = <<>>
    /\ calls = [c \in 1..MaxCalls |-> IdleCall]
    /\ pair = PairNone
    /\ edits = 0
    /\ toggles = 0
    /\ written = [full |-> {files[PathA]}, last |-> files[PathA]]
    /\ StatusIdle
    /\ ListIdle
    /\ HelpersIdle

NextToggle ==
    \/ ShowTasksModal
    \/ \E c \in 1..MaxCalls, t \in 1..MaxTasks : ToggleStart(c, t)
    \/ \E c \in 1..MaxCalls : ToggleRead(c)
    \/ \E c \in 1..MaxCalls : ToggleWrite(c)
    \/ \E c \in 1..MaxCalls : ToggleReturn(c)
    \/ \E content \in Contents : ExternalWrite(content)
    \/ ExternalDelete

SpecToggle == InitToggle /\ [][NextToggle]_vars


(***************************************************************************)
(* Status bar, debounce timer and the commands that run a subprocess       *)
(* (main.ts 43-59, 71-78, 90-108, 141-207, 338-357)                        *)
(***************************************************************************)
\* lines 343-356: the text updateStatus sets for a result of ./cli.sh status
StatusText(res) ==
    IF res.exit # "ok" THEN [text |-> "git: error", n |-> 0]
    ELSE IF res.n = 0 THEN [text |-> "check", n |-> 0]
    ELSE [text |-> "changes", n |-> res.n]

\* lines 338-342: updateStatus returns at once without a status bar element,
\* otherwise it runs ./cli.sh status
UpdateStatusEnabled == statusBarEl => started < MaxStatusRuns

UpdateStatus(running, el) ==
    IF el
    THEN /\ started' = started + 1
         /\ procs' = running \cup {[id |-> started + 1, op |-> "status"]}
         /\ lastReport' = NoReport
    ELSE /\ started' = started
         /\ procs' = running
         /\ lastReport' = lastReport

\* setTimeout: a handle no pending timer and no field holds
FreshTimer == CHOOSE i \in 1..(Cardinality(timers) + 2) :
                 i # statusTimeout /\ \A t \in timers : t.id # i

\* a clearTimeout that cancels nothing
ClearTimeoutNothing(queue, handle) == queue

\* clearTimeout(handle)
ClearTimeout(queue, handle) == {t \in queue : t.id # handle}

\* lines 149-152 without the clearTimeout
DebounceTimersKeepingOld == timers \cup {[id |-> FreshTimer, left |-> DEBOUNCE_DELAY]}

\* lines 149-152: the pending timers after updateStatusDebounced
DebounceTimers ==
    (IF statusTimeout # 0 THEN ClearTimeout(timers, statusTimeout) ELSE timers)
        \cup {[id |-> FreshTimer, left |-> DEBOUNCE_DELAY]}

\* lines 43-52, 71-78: onload reads the settings, creates the status bar
\* element when showStatusBar is set and refreshes it once
Onload(showStatusBar, autoSyncOnClose) ==
    /\ loaded = "new"
    /\ loaded' = "loaded"
    /\ statusBarEl' = showStatusBar
    /\ autoSync' = autoSyncOnClose
    /\ UpdateStatus(procs, showStatusBar)
    /\ UNCHANGED <<barText, statusTimeout, timers, sinceCall, timerStarts, burstCalls,
                   lastOutcome>>
    /\ UNCHANGED nonStatusVars

\* an onunload that leaves the pending timeout alone
OnunloadKeepingTimer ==
    /\ loaded = "loaded"
    /\ loaded' = "unloaded"
    /\ UNCHANGED <<statusBarEl, autoSync, barText, statusTimeout, timers, procs, started,
                   sinceCall, timerStarts, burstCalls, lastReport, lastOutcome>>
    /\ UNCHANGED nonStatusVars

\* lines 54-59
Onunload ==
    /\ loaded = "loaded"
    /\ loaded' = "unloaded"
    /\ IF statusTimeout # 0
       THEN /\ timers' = ClearTimeout(timers, statusTimeout)
            /\ statusTimeout' = 0
       ELSE UNCHANGED <<timers, statusTimeout>>
    /\ UNCHANGED <<statusBarEl, autoSync, barText, procs, started, sinceCall, timerStarts,
                   burstCalls, lastReport, lastOutcome>>
    /\ UNCHANGED nonStatusVars

\* lines 92-100, 148-153: a vault modify/create/delete event calls
\* updateStatusDebounced
FileEvent ==
    /\ loaded = "loaded"
    /\ timers' = DebounceTimers
    /\ statusTimeout' = FreshTimer
    /\ burstCalls' = IF sinceCall >= 0 /\ sinceCall < DEBOUNCE_DELAY
                     THEN Min(burstCalls + 1, BurstCap) ELSE 1
    /\ sinceCall' = 0
    /\ timerStarts' = 0
    /\ UNCHANGED <<loaded, statusBarEl, autoSync, barText, procs, started, lastReport,
                   lastOutcome>>
    /\ UNCHANGED nonStatusVars

\* time passes, but not beyond the moment a pending timeout is due
Advance ==
    /\ \A t \in timers : t.left > 0
    /\ LET lefts == {t.left : t \in timers}
           d     == IF lefts = {} THEN Tick
                    ELSE Min(Tick, CHOOSE m \in lefts : \A k \in lefts : m <= k)
       IN /\ timers' = {[id |-> t.id, left |-> t.left - d] : t \in timers}
          /\ sinceCall' = IF sinceCall < 0 THEN sinceCall
                          ELSE Min(sinceCall + d, DEBOUNCE_DELAY + 1)
    /\ UNCHANGED <<loaded, statusBarEl, autoSync, barText, statusTimeout, procs, started,
                   timerStarts, burstCalls, lastReport, lastOutcome>>
    /\ UNCHANGED nonStatusVars

\* line 152: the timeout is due and its callback calls updateStatus
TimerFire(t) ==
    /\ t \in timers
    /\ t.left = 0
    /\ UpdateStatusEnabled
    /\ timers' = timers \ {t}
    /\ timerStarts' = timerStarts + 1
    /\ UpdateStatus(procs, statusBarEl)
    /\ UNCHANGED <<loaded, statusBarEl, autoSync, barText, statusTimeout, sinceCall,
                   burstCalls, lastOutcome>>
    /\ UNCHANGED nonStatusVars

\* line 308: a toggleTask that wrote the file calls updateStatus
ToggleRefresh ==
    /\ loaded # "new"
    /\ UpdateStatusEnabled
    /\ UpdateStatus(procs, statusBarEl)
    /\ UNCHANGED <<loaded, statusBarEl, autoSync, barText, statusTimeout, timers,
                   sinceCall, timerStarts, burstCalls, lastOutcome>>
    /\ UNCHANGED nonStatusVars

\* a command, ribbon icon or event handler starts a subprocess: runSync (63,
\* 114, 467), runSyncQuiet (105), showStatusModal (76, 120), showTasksModal
\* (67, 86, 126-138: the grep of parseTasks) and the daily command (144)
CommandOps == {"sync", "syncQuiet", "statusModal", "tasks", "daily"}

StartCommand(op) ==
    /\ loaded = "loaded"
    /\ op = "syncQuiet" => autoSync
    /\ \A p \in procs : p.op # op
    /\ procs' = procs \cup {[id |-> 0, op |-> op]}
    /\ UNCHANGED <<loaded, statusBarEl, autoSync, barText, statusTimeout, timers, started,
                   sinceCall, timerStarts, burstCalls, lastReport, lastOutcome>>
    /\ UNCHANGED nonStatusVars

\* how an operation ends for a result of its subprocess
\*   reported:  the failure reached the user or the log as an error
\*   result:    what the operation presents ("success", "empty", or "none")
\*   unhandled: the rejection escaped every catch
Outcome(op, res) ==
    LET failed == res.exit # "ok"
        rec(reported, result, unhandled) ==
            [op |-> op, exit |-> res.exit, reported |-> reported, result |-> result,
             unhandled |-> unhandled]
    IN CASE op = "status"      -> rec(failed, IF failed THEN "none" ELSE "success", FALSE)
         [] op = "sync"        -> rec(failed, IF failed THEN "none" ELSE "success", FALSE)
         [] op = "syncQuiet"   -> rec(failed, IF failed THEN "none" ELSE "success", FALSE)
         [] op = "statusModal" -> rec(failed, IF failed THEN "none" ELSE "success", FALSE)
         [] op = "daily"       -> rec(FALSE, IF failed THEN "none" ELSE "success", failed)
         [] op = "tasks"       ->
               \* lines 251-255: the failure is caught in parseTasks and logged,
               \* the empty list is returned and the modal opens with it
               rec(failed, IF failed THEN "empty" ELSE "success", FALSE)

\* an updateStatus that runs ./cli.sh status again when it failed
StatusDoneRetrying(p, res) ==
    IF res.exit # "ok" /\ started < MaxStatusRuns
    THEN [procs |-> (procs \ {p}) \cup {[id |-> started + 1, op |-> "status"]},
          started |-> started + 1]
    ELSE [procs |-> procs \ {p}, started |-> started]

\* lines 341-356: after the await updateStatus only sets the text, in the try
\* block or in the catch; it starts nothing
StatusDone(p, res) == [procs |-> procs \ {p}, started |-> started]

\* a subprocess ends and the awaiting operation continues
Complete(p, res) ==
    /\ p \in procs
    \* line 216, "grep ... || true": the shell of the task search never exits non-zero
    /\ p.op = "tasks" => res.exit # "exit"
    /\ lastOutcome' = Outcome(p.op, res)
    /\ IF p.op = "status"
       THEN /\ barText' = StatusText(res)
            /\ lastReport' = IF p.id = started THEN res ELSE lastReport
            /\ procs' = StatusDone(p, res).procs
            /\ started' = StatusDone(p, res).started
       ELSE IF p.op = "sync" /\ res.exit = "ok"
       THEN /\ UpdateStatusEnabled
            /\ UpdateStatus(procs \ {p}, statusBarEl)
            /\ barText' = barText
       ELSE /\ procs' = procs \ {p}
            /\ UNCHANGED <<barText, started, lastReport>>
    /\ UNCHANGED <<loaded, statusBarEl, autoSync, statusTimeout, timers, sinceCall,
                   timerStarts, burstCalls>>
    /\ UNCHANGED nonStatusVars

InitStatus ==
    /\ StatusIdle
    /\ ToggleIdle
    /\ ListIdle
    /\ HelpersIdle

NextStatus ==
    \/ \E sb \in BOOLEAN, as \in BOOLEAN : Onload(sb, as)
    \/ Onunload
    \/ FileEvent
    \/ Advance
    \/ \E t \in timers : TimerFire(t)
    \/ ToggleRefresh
    \/ StartCommand("sync")
    \/ \E p \in procs, res \in ProcResults : Complete(p, res)

SpecStatus == InitStatus /\ [][NextStatus]_vars

\* the commands alone: every operation that runs a subprocess
NextCommands ==
    \/ \E sb \in BOOLEAN, as \in BOOLEAN : Onload(sb, as)
    \/ Onunload
    \/ ToggleRefresh
    \/ \E op \in CommandOps : StartCommand(op)
    \/ \E p \in procs, res \in ProcResults : Complete(p, res)

SpecCommands == InitStatus /\ [][NextCommands]_vars


(***************************************************************************)
(* parseTasks and its helpers (main.ts 209-286)                            *)
(***************************************************************************)
Digits == <<"0", "1", "2", "3", "4", "5", "6", "7", "8", "9">>
IsDigit(ch) == \E d \in 1..10 : Digits[d] = ch
DigitValue(ch) == (CHOOSE d \in 1..10 : Digits[d] = ch) - 1

\* \w of a JavaScript regular expression, over the characters the samples use
WordChars == {"a", "b", "c", "d", "e", "f", "g", "h", "i", "j", "k", "l", "m",
              "n", "o", "p", "q", "r", "s", "t", "u", "v", "w", "x", "y", "z",
              "A", "B", "C", "D", "E", "F", "G", "H", "I", "J", "K", "L", "M",
              "N", "O", "P", "Q", "R", "S", "T", "U", "V", "W", "X", "Y", "Z",
              "_"}
IsWordChar(ch) == ch \in WordChars \/ IsDigit(ch)

\* parseInt(s, 10) on a string of digits
RECURSIVE ParseInt(_)
ParseInt(s) ==
    IF s = <<>> THEN 0
    ELSE ParseInt(SubSeq(s, 1, Len(s) - 1)) * 10 + DigitValue(s[Len(s)])

\* s.trim()
RECURSIVE TrimLeft(_)
TrimLeft(s) == IF s # <<>> /\ IsSpace(s[1]) THEN TrimLeft(Tail(s)) ELSE s

RECURSIVE TrimRight(_)
TrimRight(s) ==
    IF s # <<>> /\ IsSpace(s[Len(s)]) THEN TrimRight(SubSeq(s, 1, Len(s) - 1)) ELSE s

Trim(s) == TrimRight(TrimLeft(s))

EndsWith(s, suffix) ==
    Len(suffix) <= Len(s) /\ SubSeq(s, Len(s) - Len(suffix) + 1, Len(s)) = suffix

Includes(s, part) == IndexOf(s, part) # 0

\* number of leading digits of s
RECURSIVE LeadingDigits(_)
LeadingDigits(s) ==
    IF s # <<>> /\ IsDigit(s[1]) THEN 1 + LeadingDigits(Tail(s)) ELSE 0

DotMd == <<".", "m", "d">>
NoMatch == [ok |-> FALSE, file |-> <<>>, lineNum |-> <<>>, checkbox |-> "", content |-> <<>>]

\* line 223: the rest of /^(.+\.md):(\d+):\s*- \[([ x])\]\s*(.+)$/ once group 1
\* ends at position k of the line
MatchAfterFile(line, k) ==
    LET rest1 == SubSeq(line, k + 1, Len(line))                 \* ":<digits>:..."
        nd    == IF rest1 # <<>> /\ rest1[1] = ":"
                 THEN LeadingDigits(Tail(rest1)) ELSE 0
        rest2 == SubSeq(rest1, nd + 2, Len(rest1))              \* ":<text>"
        text  == IF rest2 # <<>> THEN Tail(rest2) ELSE <<>>
        ws    == LeadingSpaces(text)
        box   == IF Len(text) >= ws + Len(MarkerOpen)
                 THEN SubSeq(text, ws + 1, ws + Len(MarkerOpen)) ELSE <<>>
        after == SubSeq(text, ws + Len(MarkerOpen) + 1, Len(text))
        ws2   == LeadingSpaces(after)
    IN IF /\ nd >= 1
          /\ rest2 # <<>> /\ rest2[1] = ":"
          /\ box \in {MarkerOpen, MarkerDone}
          /\ after # <<>>
       THEN [ok |-> TRUE,
             file |-> SubSeq(line, 1, k),
             lineNum |-> SubSeq(rest1, 2, nd + 1),
             checkbox |-> box[4],
             \* \s* is greedy but gives a character back when (.+) would be empty
             content |-> IF ws2 < Len(after) THEN SubSeq(after, ws2 + 1, Len(after))
                         ELSE SubSeq(after, Len(after), Len(after))]
       ELSE NoMatch

\* line 223: line.match(...): group 1 is greedy, so the last ".md" that lets
\* the rest match ends it
LineMatch(line) ==
    LET ends == {k \in 4..Len(line) :
                    /\ SubSeq(line, k - 2, k) = DotMd
                    /\ MatchAfterFile(line, k).ok}
    IN IF ends = {} THEN NoMatch
       ELSE MatchAfterFile(line, CHOOSE k \in ends : \A j \in ends : j <= k)

\* line 232: content.match(/#[\w\/]+/g) || []
RECURSIVE WordRun(_)
WordRun(s) ==
    IF s # <<>> /\ (IsWordChar(s[1]) \/ s[1] = "/") THEN 1 + WordRun(Tail(s)) ELSE 0

RECURSIVE ExtractTags(_)
ExtractTags(content) ==
    IF content = <<>> THEN <<>>
    ELSE IF content[1] = "#" /\ WordRun(Tail(content)) >= 1
    THEN LET n == WordRun(Tail(content))
         IN <<SubSeq(content, 1, n + 1)>> \o ExtractTags(SubSeq(content, n + 2, Len(content)))
    ELSE ExtractTags(Tail(content))

\* lines 278-286
priorityMap == <<<<"p", "1">>, <<"p", "2">>, <<"p", "3">>, <<"n", "e", "x", "t">>, <<"w", "a", "i", "t", "i", "n", "g">>, <<"s", "o", "m", "e", "d", "a", "y">>>>

\* a detectPriority in which the order of the tags decides
RECURSIVE DetectFromTagOrder(_, _)
DetectFromTagOrder(tags, i) ==
    IF tags = <<>> THEN <<>>
    ELSE LET hits == {k \in 1..Len(priorityMap) : Includes(Head(tags), priorityMap[k])}
         IN IF hits # {} THEN priorityMap[CHOOSE k \in hits : \A j \in hits : k <= j]
            ELSE DetectFromTagOrder(Tail(tags), i)

RECURSIVE DetectFrom(_, _)
DetectFrom(tags, i) ==
    IF i > Len(priorityMap) THEN <<>>                            \* undefined
    ELSE IF \E t \in 1..Len(tags) : Includes(tags[t], priorityMap[i])
    THEN priorityMap[i]
    ELSE DetectFrom(tags, i + 1)

detectPriority(tags) == DetectFrom(tags, 1)

\* lines 258-263
RECURSIVE NonEmpty(_)
NonEmpty(parts) ==
    IF parts = <<>> THEN <<>>
    ELSE IF Len(Head(parts)) > 0 THEN <<Head(parts)>> \o NonEmpty(Tail(parts))
    ELSE NonEmpty(Tail(parts))

\* a getExcludePatterns that keeps the patterns of the call before
getExcludePatternsCached(setting) ==
    IF scan.done THEN scan.patterns
    ELSE LET parts == StrSplit(setting, ",")
         IN NonEmpty([i \in 1..Len(parts) |-> Trim(parts[i])])

getExcludePatterns(setting) ==
    LET parts == StrSplit(setting, ",")
    IN NonEmpty([i \in 1..Len(parts) |-> Trim(parts[i])])

\* line 270: pattern.replace(/\*/g, '.*')
RegexSource(pattern) == StrReplaceAll(pattern, <<"*">>, <<".", "*">>)

\* new RegExp(source) throws a SyntaxError for unbalanced parentheses (the only
\* regular-expression syntax, besides "." and "*", the sample patterns use)
RECURSIVE ParenDepthOk(_, _)
ParenDepthOk(src, depth) ==
    IF src = <<>> THEN depth = 0
    ELSE IF src[1] = "(" THEN ParenDepthOk(Tail(src), depth + 1)
    ELSE IF src[1] = ")" THEN depth > 0 /\ ParenDepthOk(Tail(src), depth - 1)
    ELSE ParenDepthOk(Tail(src), depth)

RegexValid(src) == ParenDepthOk(src, 0)

\* regex.test(str) for '^' + src + '$', src made of characters, "." and "x*"
RECURSIVE RegexFullMatch(_, _)
RegexFullMatch(src, str) ==
    IF src = <<>> THEN str = <<>>
    ELSE IF Len(src) >= 2 /\ src[2] = "*"
    THEN \/ RegexFullMatch(SubSeq(src, 3, Len(src)), str)
         \/ /\ str # <<>>
            /\ (src[1] = "." \/ src[1] = str[1])
            /\ RegexFullMatch(src, Tail(str))
    ELSE /\ str # <<>>
         /\ (src[1] = "." \/ src[1] = str[1])
         /\ RegexFullMatch(Tail(src), Tail(str))

\* lines 268-274: the callback of patterns.some for one pattern:
\* "true", "false", or "throws" when new RegExp rejects the compiled pattern
PatternTest(normalizedFile, pattern) ==
    IF Includes(pattern, <<"*">>)
    THEN IF ~RegexValid(RegexSource(pattern)) THEN "throws"
         ELSE IF RegexFullMatch(RegexSource(pattern), normalizedFile) THEN "true"
         ELSE "false"
    ELSE IF \/ normalizedFile = pattern
            \/ EndsWith(normalizedFile, <<"/">> \o pattern)
            \/ EndsWith(normalizedFile, pattern)
         THEN "true" ELSE "false"

\* lines 265-276: patterns.some(...) stops at the first pattern that matches
RECURSIVE SomePattern(_, _)
SomePattern(normalizedFile, patterns) ==
    IF patterns = <<>> THEN "false"
    ELSE LET r == PatternTest(normalizedFile, Head(patterns))
         IN IF r = "false" THEN SomePattern(normalizedFile, Tail(patterns)) ELSE r

isFileExcluded(file, patterns) == SomePattern(StrReplace(file, DotSlash, <<>>), patterns)

NoFilter == <<>>

\* lines 236-240: the filter test on one task
FilterKeeps(filter, priority, completed) ==
    /\ ~(filter # NoFilter /\ priority # filter)
    /\ ~(completed /\ filter = NoFilter)

\* lines 226-249: the Task pushed for a matched line
TaskOfMatch(m) ==
    LET tags == ExtractTags(m.content)
    IN [file |-> m.file, line |-> ParseInt(m.lineNum), content |-> m.content,
        priority |-> detectPriority(tags), tags |-> tags,
        completed |-> (m.checkbox = "x")]

\* lines 220-250: the loop over the lines of stdout; a throw inside it is
\* caught at line 251 and ends the loop with the tasks pushed so far
RECURSIVE ParseLoop(_, _, _, _)
ParseLoop(lines, patterns, filter, acc) ==
    IF lines = <<>> THEN acc
    ELSE LET line == Head(lines)
             m    == LineMatch(line)
             ex   == isFileExcluded(m.file, patterns)
             task == TaskOfMatch(m)
         IN IF Trim(line) = <<>> \/ ~m.ok
            THEN ParseLoop(Tail(lines), patterns, filter, acc)
            ELSE IF ex = "throws" THEN acc
            ELSE IF ex = "true" \/ ~FilterKeeps(filter, task.priority, task.completed)
            THEN ParseLoop(Tail(lines), patterns, filter, acc)
            ELSE ParseLoop(Tail(lines), patterns, filter, Append(acc, task))

\* lines 214-255: what parseTasks returns once the grep has ended with its
\* output (exit "ok") or was killed at the timeout (the catch at line 251)
parseTasks(exit, stdout, excludePatterns, filter) ==
    IF exit # "ok" THEN <<>>
    ELSE ParseLoop(StrSplit(stdout, NL), excludePatterns, filter, <<>>)


(***************************************************************************)
(* Listing tasks: showTasksModal -> parseTasks, and the exclusion setting   *)
(***************************************************************************)
\* what the grep may print (each line "<path>:<lineNumber>:<text>")
GrepOutputs ==
    { <<".", "/", "a", ".", "m", "d", ":", "1", ":", "-", " ", "[", " ", "]", " ", "t", " ", "#", "n", "e", "x", "t", "\n",
        ".", "/", "a", ".", "m", "d", ":", "2", ":", "-", " ", "[", "x", "]", " ", "d", " ", "#", "n", "e", "x", "t", "\n",
        ".", "/", "T", "/", "b", ".", "m", "d", ":", "1", ":", "-", " ", "[", " ", "]", " ", "u", " ", "#", "p", "2", " ", "#", "p", "1", "\n",
        ".", "/", "T", "/", "b", ".", "m", "d", ":", "3", ":", "-", " ", "[", "x", "]", " ", "v", "\n">>,
      <<".", "/", "C", "L", "A", "U", "D", "E", ".", "m", "d", ":", "4", ":", "-", " ", "[", " ", "]", " ", "c", " ", "#", "p", "1", "\n",
        ".", "/", "a", ".", "m", "d", ":", "1", ":", "-", " ", "[", " ", "]", " ", "w", "\n">>,
      <<".", "/", "a", ".", "m", "d", ":", "1", ":", "-", " ", "[", " ", "]", " ", "t", "\n",
        ".", "/", "a", ".", "m", "d", ":", "2", ":", "-", " ", "[", " ", "]", " ", "s", "e", "e", " ", "b", ".", "m", "d", ":", "7", ":", " ", "-", " ", "[", " ", "]", " ", "z", "\n",
        ".", "/", "a", ".", "m", "d", ":", "3", ":", "-", " ", "[", " ", "]", " ", "u", "\n">>,
      <<>> }

\* values the user may give the setting "Exclude files from tasks"
ExcludeSettings ==
    { DefaultExclude,
      <<>>,
      <<"T", "/", "*">>,
      <<"(", "*">>,
      <<"T", "/", "*", ",", " ", "(", "*">>,
      <<" ", "a", ".", "m", "d", " ", ",", ",", "x">> }

Filters == {NoFilter, <<"n", "e", "x", "t">>, <<"p", "1">>}

\* lines 644-646: the settings tab stores a new exclusion value
SetExcludeFiles(value) ==
    /\ excludeSetting' = value
    /\ UNCHANGED <<pending, scan, listed>>
    /\ UNCHANGED nonListVars

\* lines 200-218: showTasksModal calls parseTasks, which reads the patterns
\* and starts the grep
ParseStart(filter) ==
    /\ ~pending.active
    /\ pending' = [active |-> TRUE, filter |-> filter,
                   patterns |-> getExcludePatterns(excludeSetting)]
    /\ UNCHANGED <<excludeSetting, scan, listed>>
    /\ UNCHANGED nonListVars

\* lines 218-255: the grep ends (or is killed at CLI_TIMEOUT) and the loop runs
ParseFinish(exit, stdout) ==
    /\ pending.active
    /\ listed' = parseTasks(exit, stdout, pending.patterns, pending.filter)
    /\ scan' = [done |-> TRUE, exit |-> exit, stdout |-> stdout,
                filter |-> pending.filter, patterns |-> pending.patterns]
    /\ pending' = NoPending
    /\ UNCHANGED excludeSetting
    /\ UNCHANGED nonListVars

InitList ==
    /\ ListIdle
    /\ ToggleIdle
    /\ StatusIdle
    /\ HelpersIdle

NextList ==
    \/ \E value \in ExcludeSettings : SetExcludeFiles(value)
    \/ \E filter \in Filters : ParseStart(filter)
    \/ \E exit \in {"ok", "timeout"}, stdout \in GrepOutputs : ParseFinish(exit, stdout)

SpecList == InitList /\ [][NextList]_vars

(***************************************************************************)
(* The helpers on their own: detectPriority, isFileExcluded, the line      *)
(* regex of parseTasks and the parsing of StatusModal                      *)
(***************************************************************************)
\* The helpers keep no state: a behaviour is one call of one of them.
\* the sequences of at most n elements of S
SeqsUpTo(S, n) == UNION {[1..k -> S] : k \in 0..n}

\* tags as line 232 extracts them
TagSamples ==
    { <<"#", "p", "1">>,
      <<"#", "p", "2">>,
      <<"#", "p", "3">>,
      <<"#", "n", "e", "x", "t", "/", "t", "o", "d", "a", "y">>,
      <<"#", "w", "a", "i", "t", "i", "n", "g">>,
      <<"#", "s", "o", "m", "e", "d", "a", "y">>,
      <<"#", "P", "1">>,
      <<"#", "x">>,
      <<"#", "u", "p", "1", "0">> }

\* line 245: detectPriority(tags)
DetectPriorityCall(tags) ==
    /\ probe = NoProbe
    /\ probe' = [fn |-> "detectPriority", tags |-> tags, out |-> detectPriority(tags)]
    /\ UNCHANGED nonHelperVars

\* paths as the grep prints them, and exclusion patterns that compile
PathSamples ==
    { <<".", "/", "T", "/", "d", ".", "m", "d">>,
      <<".", "/", "t", "/", "d", ".", "m", "d">>,
      <<".", "/", "T", "a", "x", "/", "n", ".", "m", "d">>,
      <<".", "/", "a", ".", "m", "d">>,
      <<".", "/", "x", "/", "a", ".", "m", "d">>,
      <<".", "/", "b", "a", ".", "m", "d">> }

PatternSamples ==
    { <<"T", "/", "*">>,
      <<"T", ".", "x", "/", "*">>,
      <<"a", ".", "m", "d">>,
      <<"*", "a", ".", "m", "d">>,
      <<"x", "/", "*", "d">>,
      <<"*">> }

\* line 229: isFileExcluded(file, excludePatterns)
IsFileExcludedCall(file, patterns) ==
    /\ probe = NoProbe
    /\ probe' = [fn |-> "isFileExcluded", file |-> file, patterns |-> patterns,
                 out |-> isFileExcluded(file, patterns)]
    /\ UNCHANGED nonHelperVars

\* ---- StatusModal (main.ts 378-455) ----
StartsWith(s, prefix) == Len(prefix) <= Len(s) /\ SubSeq(s, 1, Len(prefix)) = prefix

\* lines.find(l => l.startsWith(prefix)): the index of the first such line,
\* 0 for undefined
FindStartingWith(lines, prefix) ==
    IF \E i \in 1..Len(lines) : StartsWith(lines[i], prefix)
    THEN CHOOSE i \in 1..Len(lines) :
             /\ StartsWith(lines[i], prefix)
             /\ \A j \in 1..(i - 1) : ~StartsWith(lines[j], prefix)
    ELSE 0

\* lines.find(l => l.includes(part))
FindIncluding(lines, part) ==
    IF \E i \in 1..Len(lines) : Includes(lines[i], part)
    THEN CHOOSE i \in 1..Len(lines) :
             /\ Includes(lines[i], part)
             /\ \A j \in 1..(i - 1) : ~Includes(lines[j], part)
    ELSE 0

\* s.match(/(\d+)/)?.[1]: the first run of digits, <<>> for undefined
RECURSIVE FirstNumber(_)
FirstNumber(s) ==
    IF s = <<>> THEN <<>>
    ELSE IF IsDigit(Head(s)) THEN SubSeq(s, 1, LeadingDigits(s))
    ELSE FirstNumber(Tail(s))

BranchColon      == <<"B", "r", "a", "n", "c", "h", ":">>
BranchColonSpace == <<"B", "r", "a", "n", "c", "h", ":", " ">>
UncommittedWord  == <<"U", "n", "c", "o", "m", "m", "i", "t", "t", "e", "d">>
CleanWords       == <<"W", "o", "r", "k", "i", "n", "g", " ", "t", "r", "e", "e", " ", "c", "l", "e", "a", "n">>
Unknown          == <<"u", "n", "k", "n", "o", "w", "n">>

\* line 384
ModalBranch(lines) ==
    LET i == FindStartingWith(lines, BranchColon)
        v == IF i = 0 THEN <<>> ELSE StrReplace(lines[i], BranchColonSpace, <<>>)
    IN IF v = <<>> THEN Unknown ELSE v

\* lines 385-386
ModalChangesCount(lines) ==
    LET i == FindIncluding(lines, UncommittedWord)
        v == IF i = 0 THEN <<>> ELSE FirstNumber(lines[i])
    IN IF v = <<>> THEN <<"0">> ELSE v

\* line 387
ModalIsClean(lines) == \E i \in 1..Len(lines) : Includes(lines[i], CleanWords)

StatusLetters == {"M", "A", "D", "R", "?"}

RECURSIVE LeadingLetters(_)
LeadingLetters(s) ==
    IF s # <<>> /\ Head(s) \in StatusLetters THEN 1 + LeadingLetters(Tail(s)) ELSE 0

\* line 422: line.match(/^\s*([MADR?]+)\s+(.+)$/); the second \s+ gives a
\* character back when (.+) would be empty
FileMatch(line) ==
    LET ws     == LeadingSpaces(line)
        rest1  == SubSeq(line, ws + 1, Len(line))
        n      == LeadingLetters(rest1)
        rest2  == SubSeq(rest1, n + 1, Len(rest1))
        w      == LeadingSpaces(rest2)
        rest3  == SubSeq(rest2, w + 1, Len(rest2))
    IN IF n >= 1 /\ w >= 1 /\ rest3 # <<>>
       THEN [ok |-> TRUE, status |-> SubSeq(rest1, 1, n), file |-> rest3]
       ELSE IF n >= 1 /\ w >= 2
       THEN [ok |-> TRUE, status |-> SubSeq(rest1, 1, n), file |-> SubSeq(rest2, w, w)]
       ELSE [ok |-> FALSE, status |-> <<>>, file |-> <<>>]

\* lines 446-455
getStatusDisplay(status) ==
    CASE status = <<"M">>      -> <<"m", "o", "d", "i", "f", "i", "e", "d">>
      [] status = <<"A">>      -> <<"n", "e", "w">>
      [] status = <<"?", "?">> -> <<"n", "e", "w">>
      [] status = <<"D">>      -> <<"d", "e", "l", "e", "t", "e", "d">>
      [] status = <<"R">>      -> <<"r", "e", "n", "a", "m", "e", "d">>
      [] OTHER                 -> status

\* lines 421-443: one list item per matching line
RECURSIVE renderChangedFiles(_)
renderChangedFiles(lines) ==
    IF lines = <<>> THEN <<>>
    ELSE LET fileMatch == FileMatch(Head(lines))
         IN IF ~fileMatch.ok THEN renderChangedFiles(Tail(lines))
            ELSE <<[status |-> getStatusDisplay(fileMatch.status), file |-> fileMatch.file]>>
                     \o renderChangedFiles(Tail(lines))

\* lines 383-393: what the modal shows for an output of ./cli.sh status
StatusModalParse(statusOutput) ==
    LET lines   == StrSplit(statusOutput, NL)
        isClean == ModalIsClean(lines)
    IN [branch |-> ModalBranch(lines),
        changesCount |-> ModalChangesCount(lines),
        isClean |-> isClean,
        files |-> IF ~isClean THEN renderChangedFiles(lines) ELSE <<>>]

\* lines the status command may print
StatusLineSamples ==
    { <<"B", "r", "a", "n", "c", "h", ":", " ", "m", "a", "i", "n">>,
      <<"B", "r", "a", "n", "c", "h", ":", "d", "e", "v">>,
      <<"U", "n", "c", "o", "m", "m", "i", "t", "t", "e", "d", ":", " ", "3">>,
      <<"n", "o", " ", "2", " ", "U", "n", "c", "o", "m", "m", "i", "t", "t", "e", "d", " ", "1", "0">>,
      <<"W", "o", "r", "k", "i", "n", "g", " ", "t", "r", "e", "e", " ", "c", "l", "e", "a", "n">>,
      <<"M", " ", " ", "a", ".", "m", "d">>,
      <<"?", "?", " ", "b", ".", "m", "d">>,
      <<"D", " ", " ", "c">>,
      <<"R", " ", " ", "d">>,
      <<"A", " ", " ", "e">>,
      <<"M", "M", " ", "f">>,
      <<" ", "M", " ", "g">> }

\* the output made of these lines, each ended by a newline
RECURSIVE OutputOf(_)
OutputOf(lines) ==
    IF lines = <<>> THEN <<>> ELSE Head(lines) \o <<NL>> \o OutputOf(Tail(lines))

\* lines 191-194, 378-393: the modal opens with the output of ./cli.sh status
StatusModalOpen(lines) ==
    /\ probe = NoProbe
    /\ probe' = [fn |-> "StatusModal", lines |-> lines,
                 out |-> StatusModalParse(OutputOf(lines))]
    /\ UNCHANGED nonHelperVars

\* ---- one line of a file seen by the scan (main.ts 215-224) ----
\* texts a line of a markdown file may have
LineTextSamples ==
    { <<"-", " ", "[", " ", "]", " ", "a">>,
      <<"-", " ", "[", "x", "]", " ", "a">>,
      <<" ", " ", "-", " ", "[", " ", "]", " ", "a">>,
      <<"\t", "-", " ", "[", "x", "]", " ", "b">>,
      <<"-", " ", "[", " ", "]">>,
      <<"-", " ", "[", "x", "]">>,
      <<"-", " ", "[", " ", "]", " ">>,
      <<"-", " ", "[", "X", "]", " ", "a">>,
      <<"-", "[", " ", "]", " ", "a">>,
      <<"-", " ", "[", " ", " ", "]", " ", "a">>,
      <<"*", " ", "[", " ", "]", " ", "a">>,
      <<"a", " ", "-", " ", "[", " ", "]", " ", "b">>,
      <<>>,
      <<"-", " ", "[", " ", "]", " ", "s", "e", "e", " ", "b", ".", "m", "d", ":", "2", ":", " ", "-", " ", "[", " ", "]", " ", "z">> }

LineNumberSamples == {<<"1">>, <<"1", "2">>}

\* grep -rn prints "<path>:<lineNumber>:<text>" for a line it matches, and
\* the loop of parseTasks applies its regular expression to what grep printed
ScanLine(path, lineNum, text) ==
    /\ probe = NoProbe
    /\ probe' = [fn |-> "scanLine", path |-> path, lineNum |-> lineNum, text |-> text,
                 out |-> IF GrepMatches(text)
                         THEN LineMatch(path \o <<":">> \o lineNum \o <<":">> \o text)
                         ELSE NoMatch]
    /\ UNCHANGED nonHelperVars

InitHelpers ==
    /\ HelpersIdle
    /\ ToggleIdle
    /\ StatusIdle
    /\ ListIdle

NextHelpers ==
    \/ \E tags \in SeqsUpTo(TagSamples, MaxTags) : DetectPriorityCall(tags)
    \/ \E file \in PathSamples, patterns \in SeqsUpTo(PatternSamples, MaxPatterns) :
          IsFileExcludedCall(file, patterns)
    \/ \E lines \in SeqsUpTo(StatusLineSamples, MaxStatusLines) : StatusModalOpen(lines)
    \/ \E path \in PathSamples, lineNum \in LineNumberSamples, text \in LineTextSamples :
          ScanLine(path, lineNum, text)

SpecHelpers == InitHelpers /\ [][NextHelpers]_vars

(***************************************************************************)
(* Properties of the helpers                                               *)
(***************************************************************************)
\* the precedence order of the priorities
PrecedenceOrder ==
    << <<"p", "1">>,
       <<"p", "2">>,
       <<"p", "3">>,
       <<"n", "e", "x", "t">>,
       <<"w", "a", "i", "t", "i", "n", "g">>,
       <<"s", "o", "m", "e", "d", "a", "y">> >>

\* C13: detectPriority returns the first priority of the order p1, p2, p3,
\* next, waiting, someday whose name is a (case-sensitive) substring of some
\* tag, whatever the order of the tags, and nothing when no tag contains a
\* priority name.
C13_FirstPriorityInOrder ==
    probe.fn = "detectPriority" =>
        LET hits == {k \in 1..Len(PrecedenceOrder) :
                        \E t \in 1..Len(probe.tags) :
                            Includes(probe.tags[t], PrecedenceOrder[k])}
        IN IF hits = {} THEN probe.out = <<>>
           ELSE probe.out = PrecedenceOrder[CHOOSE k \in hits : \A j \in hits : k <= j]

\* the tags "#p2", "#p1" in this order give p1
C13_Witness ==
    /\ probe.fn = "detectPriority"
    /\ probe.tags = << <<"#", "p", "2">>, <<"#", "p", "1">> >>
    /\ probe.out = <<"p", "1">>

\* the whole text fits the pattern, each "*" standing for zero or more
\* characters and every other character for itself
RECURSIVE WildcardFits(_, _)
WildcardFits(pattern, text) ==
    IF pattern = <<>> THEN text = <<>>
    ELSE IF Head(pattern) = "*"
    THEN \/ WildcardFits(Tail(pattern), text)
         \/ text # <<>> /\ WildcardFits(pattern, Tail(text))
    ELSE /\ text # <<>>
         /\ Head(text) = Head(pattern)
         /\ WildcardFits(Tail(pattern), Tail(text))

WithoutLeadingDotSlash(path) ==
    IF Len(path) >= 2 /\ SubSeq(path, 1, 2) = <<".", "/">> THEN SubSeq(path, 3, Len(path))
    ELSE path

PatternMatchesPath(pattern, path) ==
    IF \E k \in 1..Len(pattern) : pattern[k] = "*"
    THEN WildcardFits(pattern, path)
    ELSE \/ path = pattern
         \/ EndsWith(path, <<"/">> \o pattern)
         \/ EndsWith(path, pattern)

\* C14: isFileExcluded is true iff some pattern matches the path without its
\* leading "./": a pattern with "*" when the whole path fits it, a pattern
\* without "*" when the path equals it or ends with it.
C14_ExcludedIffSomePatternMatches ==
    probe.fn = "isFileExcluded" =>
        ((probe.out = "true") <=>
            \E i \in 1..Len(probe.patterns) :
                PatternMatchesPath(probe.patterns[i], WithoutLeadingDotSlash(probe.file)))

\* the statement of C14 for patterns without a "."
ExcludedIffMatchesWithoutDots ==
    (/\ probe.fn = "isFileExcluded"
     /\ \A i \in 1..Len(probe.patterns) :
           \A k \in 1..Len(probe.patterns[i]) : probe.patterns[i][k] # ".")
    => C14_ExcludedIffSomePatternMatches

\* the text after "Branch: " on the first line that starts with it
BranchAfterPrefix(lines) ==
    LET hits == {i \in 1..Len(lines) : StartsWith(lines[i], BranchColonSpace)}
    IN IF hits = {} THEN Unknown
       ELSE LET i == CHOOSE k \in hits : \A j \in hits : k <= j
            IN SubSeq(lines[i], Len(BranchColonSpace) + 1, Len(lines[i]))

\* the first integer on the first line containing "Uncommitted", else 0
FirstUncommittedCount(lines) ==
    LET hits == {i \in 1..Len(lines) : Includes(lines[i], UncommittedWord)}
    IN IF hits = {} THEN 0
       ELSE ParseInt(FirstNumber(lines[CHOOSE k \in hits : \A j \in hits : k <= j]))

\* the entry of a line made of status letters, whitespace and a path
\* (leading whitespace allowed), in the display names of the letters
EntryOfLine(line) ==
    LET body  == TrimLeft(line)
        cuts  == {k \in 1..Len(body) :
                     /\ \A j \in 1..k : body[j] \in StatusLetters
                     /\ k < Len(body) /\ IsSpace(body[k + 1])}
    IN IF cuts = {} \/ TrimLeft(SubSeq(body, 1 + CHOOSE k \in cuts : TRUE, Len(body))) = <<>>
       THEN <<>>
       ELSE LET k       == CHOOSE c \in cuts : TRUE
                letters == SubSeq(body, 1, k)
                name    == IF letters = <<"M">> THEN <<"m", "o", "d", "i", "f", "i", "e", "d">>
                           ELSE IF letters \in {<<"A">>, <<"?", "?">>} THEN <<"n", "e", "w">>
                           ELSE IF letters = <<"D">> THEN <<"d", "e", "l", "e", "t", "e", "d">>
                           ELSE IF letters = <<"R">> THEN <<"r", "e", "n", "a", "m", "e", "d">>
                           ELSE letters
            IN <<[status |-> name, file |-> TrimLeft(SubSeq(body, k + 1, Len(body)))]>>

RECURSIVE EntriesOf(_)
EntriesOf(lines) ==
    IF lines = <<>> THEN <<>> ELSE EntryOfLine(Head(lines)) \o EntriesOf(Tail(lines))

\* C15: parsing the status output gives the branch named after "Branch: "
\* (or "unknown"), the first integer of the first "Uncommitted" line (or 0),
\* isClean iff some line contains "Working tree clean", and one changed-file
\* entry per status line, in output order, with the letters mapped to their
\* display names.
C15_StatusParse ==
    probe.fn = "StatusModal" =>
        /\ probe.out.branch = BranchAfterPrefix(probe.lines)
        /\ ParseInt(probe.out.changesCount) = FirstUncommittedCount(probe.lines)
        /\ probe.out.isClean = (\E i \in 1..Len(probe.lines) :
                                    Includes(probe.lines[i], CleanWords))
        /\ probe.out.files = EntriesOf(probe.lines)

\* the statement of C15 without the branch, for outputs that are not clean
StatusParseCountAndFiles ==
    (probe.fn = "StatusModal" /\ ~probe.out.isClean) =>
        /\ ParseInt(probe.out.changesCount) = FirstUncommittedCount(probe.lines)
        /\ probe.out.files = EntriesOf(probe.lines)

\* after optional leading whitespace the text begins with "- [ ]" or "- [x]"
BeginsWithMarker(text) ==
    \E k \in 0..Len(text) :
        /\ \A j \in 1..k : IsSpace(text[j])
        /\ Len(text) >= k + 5
        /\ SubSeq(text, k + 1, k + 5) \in {<<"-", " ", "[", " ", "]">>,
                                            <<"-", " ", "[", "x", "]">>}

\* C20: a line yields a Task candidate iff its text, after optional leading
\* whitespace, begins with "- [ ]" or "- [x]", whatever follows the marker
\* (nothing included).
C20_CandidateIffMarker ==
    probe.fn = "scanLine" => (probe.out.ok <=> BeginsWithMarker(probe.text))

\* the statement of C20 for lines with at least one character after the marker
CandidateIffMarkerFollowedByText ==
    (/\ probe.fn = "scanLine"
     /\ \E k \in 1..Len(probe.text) : probe.text[k] = "]" /\ k < Len(probe.text))
    => C20_CandidateIffMarker

\* C21: for a line "<path>:<lineNumber>:<text>" that yields a Task, the file
\* of the Task is exactly <path> and its line exactly <lineNumber>, whatever
\* the text contains.
C21_PathAndLineExact ==
    (probe.fn = "scanLine" /\ probe.out.ok) =>
        /\ TaskOfMatch(probe.out).file = probe.path
        /\ TaskOfMatch(probe.out).line = ParseInt(probe.lineNum)

\* the statement of C21 for texts without ".md:"
PathAndLineExactForPlainText ==
    (probe.fn = "scanLine" /\ ~Includes(probe.text, DotMd \o <<":">>))
    => C21_PathAndLineExact

(***************************************************************************)
(* Properties of the task listing                                          *)
(***************************************************************************)
\* the tasks of the matching lines of an output, in output order
RECURSIVE Candidates(_)
Candidates(lines) ==
    IF lines = <<>> THEN <<>>
    ELSE IF LineMatch(Head(lines)).ok
    THEN <<TaskOfMatch(LineMatch(Head(lines)))>> \o Candidates(Tail(lines))
    ELSE Candidates(Tail(lines))

\* some pattern matches the file; a pattern that does not compile matches nothing
ExcludedBySome(file, patterns) ==
    \E i \in 1..Len(patterns) :
        PatternTest(StrReplace(file, DotSlash, <<>>), patterns[i]) = "true"

InvalidPattern(pattern) ==
    Includes(pattern, <<"*">>) /\ ~RegexValid(RegexSource(pattern))

\* C7: with a filter the list is exactly the non-excluded tasks whose priority
\* equals the filter, completed or not; without a filter it is exactly the
\* non-excluded incomplete tasks, whatever their priority.
C7_ListExact ==
    (scan.done /\ scan.exit = "ok") =>
        LET Keep(t) ==
                /\ ~ExcludedBySome(t.file, scan.patterns)
                /\ IF scan.filter # NoFilter THEN t.priority = scan.filter
                   ELSE ~t.completed
        IN listed = SelectSeq(Candidates(StrSplit(scan.stdout, NL)), Keep)

\* C8: a pattern that does not compile behaves as a pattern that never
\* matches: the list is the one the same scan returns without that pattern.
C8_InvalidPatternNeverMatches ==
    (/\ scan.done /\ scan.exit = "ok"
     /\ \E i \in 1..Len(scan.patterns) : InvalidPattern(scan.patterns[i]))
    => LET Valid(pat) == ~InvalidPattern(pat)
       IN listed = ParseLoop(StrSplit(scan.stdout, NL), SelectSeq(scan.patterns, Valid),
                             scan.filter, <<>>)

\* the statement of C7 restricted to scans whose patterns all compile
ListExactWhenPatternsCompile ==
    (\A i \in 1..Len(scan.patterns) : ~InvalidPattern(scan.patterns[i])) => C7_ListExact

\* a is b with some elements left out, the order kept
RECURSIVE IsSubsequence(_, _)
IsSubsequence(a, b) ==
    IF a = <<>> THEN TRUE
    ELSE IF b = <<>> THEN FALSE
    ELSE IF Head(a) = Head(b) THEN IsSubsequence(Tail(a), Tail(b))
    ELSE IsSubsequence(a, Tail(b))

\* tasks of one file are next to each other and in ascending line number
GroupedAndAscending(list) ==
    \A i \in 1..Len(list), k \in 1..Len(list) :
        (i < k /\ list[i].file = list[k].file) =>
            /\ list[i].line < list[k].line
            /\ \A j \in i..k : list[j].file = list[i].file

\* C16: the list returned is an order-preserving subsequence of the tasks of
\* the scanned lines, with the tasks of a file contiguous, the files in
\* first-seen order and ascending line numbers within a file, for every
\* filter and every exclusion list.
C16_ListOrdered ==
    (scan.done /\ scan.exit = "ok") =>
        /\ IsSubsequence(listed, Candidates(StrSplit(scan.stdout, NL)))
        /\ GroupedAndAscending(listed)

\* the statement of C16 for lists whose file fields are the paths grep printed
ListOrderedWhenPathsExact ==
    (\A i \in 1..Len(listed) : EndsWith(listed[i].file, DotMd) /\ ~Includes(listed[i].file, <<":">>))
    => C16_ListOrdered

\* the configuration value split on commas, each entry trimmed, the empty
\* entries dropped
PatternsOfSetting(setting) ==
    LET parts   == StrSplit(setting, ",")
        trimmed == [i \in 1..Len(parts) |-> Trim(parts[i])]
        Kept(entry) == entry # <<>>
    IN SelectSeq(trimmed, Kept)

\* C22: every parseTasks call takes its patterns from the value the setting
\* has at that call, keeps them while its grep runs, and filters with them;
\* patterns of an earlier call are never used.
C22_PatternsRecomputed ==
    [][/\ (~pending.active /\ pending'.active)
            => pending'.patterns = PatternsOfSetting(excludeSetting)
       /\ (pending.active /\ pending'.active) => pending'.patterns = pending.patterns
       /\ (pending.active /\ ~pending'.active)
            => /\ scan'.patterns = pending.patterns
               /\ scan'.exit = "ok" =>
                     listed' = ParseLoop(StrSplit(scan'.stdout, NL), pending.patterns,
                                         pending.filter, <<>>)]_vars

\* a call after a change of the setting: its patterns are those of the new
\* value (entries trimmed, empty ones dropped), not those of the call before
C22_Witness ==
    /\ scan.done
    /\ pending.active
    /\ pending.patterns # scan.patterns
    /\ excludeSetting = <<" ", "a", ".", "m", "d", " ", ",", ",", "x">>
    /\ pending.patterns = <<<<"a", ".", "m", "d">>, <<"x">>>>

(***************************************************************************)
(* Properties of toggleTask                                                *)
(***************************************************************************)
LinesOf(content) == StrSplit(content, NL)

\* the line is a well-formed task line whose marker agrees with the flag
FreshTaskLine(content, lineNo, completed) ==
    /\ lineNo >= 1
    /\ lineNo <= Len(LinesOf(content))
    /\ MarkerOf(LinesOf(content)[lineNo]) = (IF completed THEN "x" ELSE " ")

\* C2: for a well-formed task line whose Task flag agrees with its marker, two
\* toggles in a row (the flag updated from the first result in between, nothing
\* else touching the file) leave the file content byte-identical.
C2_ToggleTwiceRestores ==
    (/\ pair.n = 2
     /\ FreshTaskLine(pair.before, tasks[pair.task].line, pair.arg))
    => ContentOf(files, PathA) = pair.before

C2_Witness ==
    /\ pair.n = 2
    /\ FreshTaskLine(pair.before, tasks[pair.task].line, pair.arg)
    /\ tasks[pair.task].completed = pair.arg

\* new is old with exactly the first occurrence of one marker replaced by the
\* other marker, or old itself when that marker does not occur
FirstMarkerFlipped(old, new) ==
    \E m \in {<<MarkerOpen, MarkerDone>>, <<MarkerDone, MarkerOpen>>} :
        \/ /\ \A k \in 1..Len(old) : ~OccursAt(old, m[1], k)
           /\ new = old
        \/ \E k \in 1..Len(old) :
              /\ OccursAt(old, m[1], k)
              /\ \A j \in 1..(k - 1) : ~OccursAt(old, m[1], j)
              /\ Len(new) = Len(old)
              /\ OccursAt(new, m[2], k)
              /\ \A j \in 1..Len(old) : (j < k \/ j >= k + Len(m[1])) => new[j] = old[j]

\* C3: the content written differs from the content read at call time at most
\* in line task.line: same number of lines, every other line byte-identical,
\* and on the target line only the first occurrence of the marker replaced.
C3_ToggleFrame ==
    \A c \in 1..MaxCalls :
        (calls[c].pc = "returned" /\ calls[c].wrote) =>
            LET old == LinesOf(calls[c].readContent)
                new == LinesOf(calls[c].newContent)
                i   == tasks[calls[c].task].line
            IN /\ Len(new) = Len(old)
               /\ \A j \in 1..Len(old) : j # i => new[j] = old[j]
               /\ FirstMarkerFlipped(old[i], new[i])

\* a toggle that wrote a changed line into content edited after the scan
C3_Witness ==
    \E c \in 1..MaxCalls :
        /\ calls[c].pc = "returned" /\ calls[c].wrote
        /\ edits > 0
        /\ calls[c].newContent # calls[c].readContent
        /\ Len(LinesOf(calls[c].readContent)) > 1

\* C4: for a Task whose line is within the file, the value returned equals the
\* completion state the marker on that line shows right after the call.
C4_ReturnMatchesLine ==
    \A c \in 1..MaxCalls :
        (calls[c].pc = "returned" /\ calls[c].wrote) =>
            MarkerOf(LinesOf(calls[c].newContent)[tasks[calls[c].task].line])
                = (IF calls[c].ret THEN "x" ELSE " ")

C6_MissingFileNoOp ==
    \A c \in 1..MaxCalls :
        (calls[c].pc = "returned" /\ ~calls[c].existedAtStart) =>
            /\ calls[c].notice = "File not found"
            /\ calls[c].ret = calls[c].startCompleted
            /\ ~calls[c].hasRead
            /\ ~calls[c].wrote
            /\ ~calls[c].refreshed

C6_Witness ==
    \E c \in 1..MaxCalls :
        /\ calls[c].pc = "returned" /\ ~calls[c].existedAtStart
        /\ PathA \notin DOMAIN files

\* new is old with the checkbox marker at its start (after optional
\* whitespace) replaced by the other marker
CheckboxFlipped(old, new) ==
    LET k == LeadingSpaces(old) + 1
    IN \E m \in {<<MarkerOpen, MarkerDone>>, <<MarkerDone, MarkerOpen>>} :
          /\ OccursAt(old, m[1], k)
          /\ new = SubSeq(old, 1, k - 1) \o m[2] \o SubSeq(old, k + Len(m[1]), Len(old))

\* the line is a line of a content written in full, or such a line with its
\* checkbox marker flipped
WholeLine(line) ==
    \E w \in written.full :
        \E j \in 1..Len(LinesOf(w)) :
            line = LinesOf(w)[j] \/ CheckboxFlipped(LinesOf(w)[j], line)

\* C19: once the toggles and the external writes have finished, the file is
\* the content of the write that happened last, and each of its lines is a
\* line some writer wrote in full or such a line with exactly its checkbox
\* marker flipped.
C19_WholeLinesLastWriteWins ==
    (/\ PathA \in DOMAIN files
     /\ \A c \in 1..MaxCalls : calls[c].pc \in {"idle", "returned"})
    => /\ files[PathA] = written.last
       /\ \A i \in 1..Len(LinesOf(files[PathA])) : WholeLine(LinesOf(files[PathA])[i])

\* the statement of C19 with "a marker of the line" in place of "its
\* checkbox marker"
WholeLinesOneMarkerFlipped ==
    (/\ PathA \in DOMAIN files
     /\ \A c \in 1..MaxCalls : calls[c].pc \in {"idle", "returned"})
    => /\ files[PathA] = written.last
       /\ \A i \in 1..Len(LinesOf(files[PathA])) :
             \E w \in written.full :
                \E j \in 1..Len(LinesOf(w)) :
                    \/ FirstMarkerFlipped(LinesOf(w)[j], LinesOf(files[PathA])[i])
                    \/ \E mid \in {ToggledLine(LinesOf(w)[j], b) : b \in BOOLEAN} :
                          FirstMarkerFlipped(mid, LinesOf(files[PathA])[i])

\* C23: two overlapping toggles of two different task lines of one file (the
\* second reads before the first has written, nothing else writes): after
\* both have completed each line carries its flipped marker, and each return
\* value is the state of its line in the file.
C23_OverlappingTogglesBothApply ==
    \A c \in 1..MaxCalls, d \in 1..MaxCalls :
        (/\ c # d
         /\ calls[c].pc = "returned" /\ calls[d].pc = "returned"
         /\ calls[c].wrote /\ calls[d].wrote
         /\ calls[c].task # calls[d].task
         /\ edits = 0 /\ toggles = 2
         /\ calls[c].readContent = calls[d].readContent
         /\ PathA \in DOMAIN files)
        => \A e \in {c, d} :
              LET n == tasks[calls[e].task].line
              IN /\ MarkerOf(LinesOf(files[PathA])[n])
                       = (IF calls[e].ret THEN "x" ELSE " ")
                 /\ MarkerOf(LinesOf(files[PathA])[n])
                       # MarkerOf(LinesOf(calls[e].readContent)[n])

(***************************************************************************)
(* Properties of the debounce timer, the status bar and the commands       *)
(***************************************************************************)
\* C1: while the plugin stays loaded, a burst of updateStatusDebounced calls
\* (each less than DEBOUNCE_DELAY after the previous one) makes the timer call
\* updateStatus exactly once: never before a full window has passed since the
\* last call of the burst, never twice, and once more than a window has passed
\* the call has been made.
C1_DebounceOnce ==
    /\ timerStarts <= 1
    /\ timerStarts >= 1 => sinceCall >= DEBOUNCE_DELAY
    /\ (loaded = "loaded" /\ sinceCall > DEBOUNCE_DELAY) => timerStarts = 1

\* a burst of three calls, then the one refresh
C1_Witness ==
    /\ burstCalls >= 3
    /\ timerStarts = 1
    /\ sinceCall >= DEBOUNCE_DELAY
    /\ \E p \in procs : p.op = "status"

\* C9: a subprocess failure (non-zero exit or timeout) ends the operation that
\* ran it in an error outcome: reported as an error, not presented as a
\* successful or empty result, and not left unhandled.
C9_FailuresSurfaced ==
    lastOutcome.exit # "ok" =>
        /\ lastOutcome.reported
        /\ lastOutcome.result = "none"
        /\ ~lastOutcome.unhandled

\* C10: once nothing is pending or in flight any more, the status bar shows
\* what the status invocation that was started last has reported.
C10_ShowsLastStarted ==
    (/\ started > 0
     /\ lastReport.exit = "ok"
     /\ timers = {}
     /\ \A p \in procs : p.op \notin {"status", "sync"})
    => barText = StatusText(lastReport)

\* C11: once the plugin is unloaded no timeout is pending (onunload itself
\* cancels the pending one) and the debounce timer starts no refresh,
\* whatever calls of updateStatusDebounced came before.
C11_UnloadCancelsTimer ==
    [][/\ loaded' = "unloaded" => timers' = {}
       /\ loaded = "unloaded" => timerStarts' = timerStarts]_vars

\* unloaded in the middle of a burst, and more than a window has passed
\* without the refresh
C11_Witness ==
    /\ loaded = "unloaded"
    /\ burstCalls >= 2
    /\ sinceCall > DEBOUNCE_DELAY
    /\ timerStarts = 0

\* C12: when ./cli.sh status fails (non-zero exit or timeout) updateStatus
\* ends in the error outcome ("git: error", failure reported) and starts no
\* status invocation and no timer of its own.
C12_NoRetry ==
    [][(/\ \E p \in procs : p.op = "status" /\ p \notin procs'
        /\ lastOutcome'.exit # "ok")
       => /\ started' = started
          /\ \A q \in procs' : q \in procs
          /\ timers' = timers
          /\ lastOutcome'.op = "status" /\ lastOutcome'.reported
          /\ barText' = StatusText([exit |-> "exit", n |-> 0])]_vars

\* a failed status invocation, nothing pending or running after it, and the
\* bar still showing the error a full window later
C12_Witness ==
    /\ lastOutcome.op = "status" /\ lastOutcome.exit = "timeout"
    /\ procs = {} /\ timers = {}
    /\ started < MaxStatusRuns
    /\ sinceCall > DEBOUNCE_DELAY
    /\ barText.text = "git: error"

\* C17: at most one debounce timeout is pending, and it is the one the
\* statusTimeout field holds: a call made while one is pending replaces it.
C17_SingleTimer ==
    /\ Cardinality(timers) <= 1
    /\ \A t \in timers : t.id = statusTimeout

\* a second call made while the timeout of the first was pending
C17_Witness ==
    /\ burstCalls >= 2
    /\ sinceCall < DEBOUNCE_DELAY
    /\ Cardinality(timers) = 1

\* C18: after onunload the completion of a status invocation leaves the text
\* of the status bar as it was.
C18_ResultDiscardedAfterUnload ==
    [][loaded = "unloaded" => barText' = barText]_vars

====
